---- MODULE Spec2Model ----
(***************************************************************************)
(* The tool-augmented dialogue loop of the AI logging agent, chapters 06   *)
(* to 09 of 03-ai-agent-for-devops: one user utterance is answered by a    *)
(* model call, zero or more dispatch rounds of the requested tools, and a  *)
(* final text.  The language model and the tool executors are external:    *)
(* what they return (or whether they raise) is chosen nondeterministically.*)
(***************************************************************************)
EXTENDS Naturals, Sequences, FiniteSets, TLC

VARIABLES
    variant,          \* which chapter's program runs: "ch06" .. "ch09"
    turns,            \* utterances submitted so far
    pc,               \* position of the program
    st_messages,      \* st.session_state.messages (chapters 08/09)
    chat_history,     \* 06/07: the InMemoryChatMessageHistory; 08/09: process_query's argument
    user_input,       \* the utterance being processed
    messages,         \* the message sequence handed to the next model call
    current_response, \* the last response received from llm_with_tools
    final_response,   \* chapters 06-08: the response of the plain llm after the dispatch
    iteration,        \* _handle_tool_calls' loop counter (chapter 09)
    tool_messages,    \* chapter 09: ToolMessages of the last dispatch round
    tool_results,     \* chapters 07/08: tool_results of the dispatch
    tc_index,         \* chapter 06: position in response.tool_calls
    executed,         \* tool executors invoked during this turn, in order
    model_calls,      \* model invocations made during this turn
    exc,              \* the exception caught at the loop boundary, "none" if none
    response,         \* the text handed back to the caller (printed, in chapter 06)
    turn_start,       \* the session memory as it was when the turn began
    raw_response,     \* extract_response_text on its own: the argument of the call
    extracted,        \* the string the call returned
    extract_pc,       \* "idle", "returned", "raised", or "done" after a second call
    session_state,    \* st.session_state of every browser session of the app
    GEMINI_API_KEY,   \* the credential in the environment: "None" when it is not set
    agent,            \* the LogAnalyzerAgent of the process, "None" before construction
    self_tools,       \* the agent's self.tools (chapter 06: the module's tools list)
    logs,             \* read_log_file on its own: what the logs directory holds
    filename,         \* the argument of the call
    read_pc,          \* "idle", "returned" or "raised"
    read_result       \* the text the call returned

agent_vars == <<variant, turns, pc, st_messages, chat_history, user_input, messages,
                current_response, final_response, iteration, tool_messages, tool_results,
                tc_index, executed, model_calls, exc, response, turn_start>>

extract_vars == <<raw_response, extracted, extract_pc>>

session_vars == <<session_state>>

process_vars == <<GEMINI_API_KEY, agent, self_tools>>

file_vars == <<logs, filename, read_pc, read_result>>

vars == <<agent_vars, extract_vars, session_vars, process_vars, file_vars>>

-----------------------------------------------------------------------------
(* Bounds and program constants *)

MaxTurns == 2

max_iterations == 5

Variants == {"ch06", "ch07", "ch08", "ch09"}

AppVariants == {"ch08", "ch09"}

Utterances == {"check app.log", "yes, restart it"}

ConfirmUtterance == "yes, restart it"

SystemPrompt == "system prompt"

ModelError == "model transport failed"

ToolError == "tool failed"

\* longest content list handed to extract_response_text on its own
MaxBlocks == 3

\* browser sessions of the Streamlit app
Sessions == {"s1", "s2"}

-----------------------------------------------------------------------------
(* Response shapes and their normalisation *)

\* a content block: its Python type, whether a dict has the key 'text', the
\* string it carries, and whether block['text'] is a str at all
TextDict(t) == [type |-> "dict", has_text |-> TRUE, text |-> t, text_is_str |-> TRUE]

\* {'text': None}: the key is there, its value is not a string
NoneTextDict == [type |-> "dict", has_text |-> TRUE, text |-> "", text_is_str |-> FALSE]

OtherDict == [type |-> "dict", has_text |-> FALSE, text |-> "", text_is_str |-> FALSE]

StrBlock(t) == [type |-> "str", has_text |-> FALSE, text |-> t, text_is_str |-> FALSE]

\* a block that is neither a dict nor a str
OtherBlock == [type |-> "other", has_text |-> FALSE, text |-> "", text_is_str |-> FALSE]

StrContent(s) == [kind |-> "str", str |-> s, blocks |-> <<>>]

ListContent(bs) == [kind |-> "list", str |-> "", blocks |-> bs]

OtherContent(rendering) == [kind |-> "other", str |-> rendering, blocks |-> <<>>]

\* the parts joined last block first
RECURSIVE JoinText_Reversed(_)
JoinText_Reversed(blocks) ==
    IF blocks = <<>> THEN ""
    ELSE LET block == Head(blocks)
             part == IF block.type = "dict" /\ block.has_text THEN block.text
                     ELSE IF block.type = "str" THEN block.text
                     ELSE ""
         IN JoinText_Reversed(Tail(blocks)) \o part

\* ''.join(text_parts), defined when every collected part is a str
RECURSIVE JoinText(_)
JoinText(blocks) ==
    IF blocks = <<>> THEN ""
    ELSE LET block == Head(blocks)
             part == IF block.type = "dict" /\ block.has_text THEN block.text
                     ELSE IF block.type = "str" THEN block.text
                     ELSE ""
         IN part \o JoinText(Tail(blocks))

\* ''.join raises TypeError on a collected part that is not a str
JoinRaises(blocks) ==
    \E i \in DOMAIN blocks :
        blocks[i].type = "dict" /\ blocks[i].has_text /\ ~blocks[i].text_is_str

extract_raises(resp) ==
    resp.has_content /\ resp.content.kind = "list" /\ JoinRaises(resp.content.blocks)

\* an object without a content attribute rendered as the empty string
extract_response_text_ContentOnly(resp) ==
    IF resp.has_content
    THEN IF resp.content.kind = "str" THEN resp.content.str
         ELSE IF resp.content.kind = "list" THEN JoinText(resp.content.blocks)
         ELSE resp.content.str
    ELSE ""

\* the value returned, when the call returns
extract_response_text(resp) ==
    IF resp.has_content
    THEN IF resp.content.kind = "str" THEN resp.content.str
         ELSE IF resp.content.kind = "list" THEN JoinText(resp.content.blocks)
         ELSE resp.content.str
    ELSE resp.repr

-----------------------------------------------------------------------------
(* Messages *)

Msg(role, content, tool_calls, id) ==
    [role |-> role, content |-> content, tool_calls |-> tool_calls, tool_call_id |-> id]

SystemMessage(s) == Msg("system", StrContent(s), <<>>, "")

HumanMessage(s) == Msg("human", StrContent(s), <<>>, "")

AIMessage(content, tool_calls) == Msg("ai", content, tool_calls, "")

ToolMessage(s, id) == Msg("tool", StrContent(s), <<>>, id)

NoResponse == [has_content |-> FALSE, content |-> StrContent(""), tool_calls |-> <<>>, repr |-> ""]

AIResponse(content, tool_calls) ==
    [has_content |-> TRUE, content |-> content, tool_calls |-> tool_calls, repr |-> ""]

ToolCall(name, args, id) == [name |-> name, args |-> args, id |-> id]

HasToolCalls(resp) == resp.tool_calls # <<>>

-----------------------------------------------------------------------------
(* Tool registry *)

tools06 == <<"read_log_file", "count_errors">>

get_log_tools == <<"read_log_file", "list_log_files", "search_logs">>

get_all_tools == Append(get_log_tools, "restart_kubernetes_pod")

\* the list the constructor stores in self.tools and binds to the model
tools ==
    IF variant = "ch06" THEN tools06
    ELSE IF variant = "ch09" THEN get_all_tools
    ELSE get_log_tools

\* for tool in self.tools: if tool.name == tool_name: tool_func = tool; break
FindTool(tool_name) ==
    LET hits == {i \in 1..Len(self_tools) : self_tools[i] = tool_name}
    IN IF hits = {} THEN "None"
       ELSE self_tools[CHOOSE i \in hits : \A j \in hits : i <= j]

ValidArgs == "valid arguments"

MalformedArgs == "malformed arguments"

\* tool.invoke(tool_args): the executor's text, or an exception when the
\* arguments do not fit the declared schema
invoke(tool_func, tool_args) ==
    IF tool_args = MalformedArgs
    THEN [raised |-> TRUE, text |-> ToolError]
    ELSE [raised |-> FALSE, text |-> "output of " \o tool_func]

-----------------------------------------------------------------------------
(* What the model may answer *)

UnknownTool == "rotate_logs"

BlocksAB == <<TextDict("a"), StrBlock("b"), OtherDict>>

\* responses of llm_with_tools that request tools: one names a tool that is
\* not declared, two request the first and the last declared tool, the first
\* of them with malformed arguments for the first tool
ToolResponses ==
    { AIResponse(ListContent(BlocksAB), <<ToolCall(UnknownTool, ValidArgs, "call_1")>>),
      AIResponse(StrContent("ok"),
                 <<ToolCall(tools[1], MalformedArgs, "call_1"),
                   ToolCall(tools[Len(tools)], ValidArgs, "call_2")>>),
      AIResponse(StrContent("ok"),
                 <<ToolCall(tools[1], ValidArgs, "call_1"),
                   ToolCall(tools[Len(tools)], ValidArgs, "call_2")>>) }

\* responses that carry final text only
TextResponses ==
    { AIResponse(StrContent("ok"), <<>>),
      AIResponse(ListContent(BlocksAB), <<>>) }

ModelResponses == ToolResponses \cup TextResponses

-----------------------------------------------------------------------------
(* Dispatch *)

\* the results collected in front of the earlier ones
RECURSIVE ExecuteToolCalls_Reversed(_, _)
ExecuteToolCalls_Reversed(tool_calls, i) ==
    IF i > Len(tool_calls) THEN <<>>
    ELSE LET tool_call == tool_calls[i]
             tool_func == FindTool(tool_call.name)
             result == invoke(tool_func, tool_call.args)
             entry == IF tool_func = "None" THEN <<>>
                      ELSE IF ~result.raised
                           THEN <<[tool |-> tool_call.name, id |-> tool_call.id,
                                   result |-> result.text]>>
                           ELSE <<[tool |-> tool_call.name, id |-> tool_call.id,
                                   result |-> "Error: " \o result.text]>>
         IN ExecuteToolCalls_Reversed(tool_calls, i + 1) \o entry

\* an executor's exception swallowed without a result
RECURSIVE ExecuteToolCalls_DropFailures(_, _)
ExecuteToolCalls_DropFailures(tool_calls, i) ==
    IF i > Len(tool_calls) THEN <<>>
    ELSE LET tool_call == tool_calls[i]
             tool_func == FindTool(tool_call.name)
             result == invoke(tool_func, tool_call.args)
             entry == IF tool_func = "None" THEN <<>>
                      ELSE IF ~result.raised
                           THEN <<[tool |-> tool_call.name, id |-> tool_call.id,
                                   result |-> result.text]>>
                           ELSE <<>>
         IN entry \o ExecuteToolCalls_DropFailures(tool_calls, i + 1)

\* chapters 08 and 09: the executor's exception is caught per call; a request
\* whose tool is not found appends nothing
RECURSIVE ExecuteToolCalls(_, _)
ExecuteToolCalls(tool_calls, i) ==
    IF i > Len(tool_calls) THEN <<>>
    ELSE LET tool_call == tool_calls[i]
             tool_func == FindTool(tool_call.name)
             result == invoke(tool_func, tool_call.args)
             entry == IF tool_func = "None" THEN <<>>
                      ELSE IF ~result.raised
                           THEN <<[tool |-> tool_call.name, id |-> tool_call.id,
                                   result |-> result.text]>>
                           ELSE <<[tool |-> tool_call.name, id |-> tool_call.id,
                                   result |-> "Error: " \o result.text]>>
         IN entry \o ExecuteToolCalls(tool_calls, i + 1)

\* an executor that raised invoked a second time
RECURSIVE Invoked_RetriesFailures(_, _)
Invoked_RetriesFailures(tool_calls, i) ==
    IF i > Len(tool_calls) THEN <<>>
    ELSE (IF FindTool(tool_calls[i].name) = "None" THEN <<>>
          ELSE IF invoke(FindTool(tool_calls[i].name), tool_calls[i].args).raised
               THEN <<FindTool(tool_calls[i].name), FindTool(tool_calls[i].name)>>
               ELSE <<FindTool(tool_calls[i].name)>>)
         \o Invoked_RetriesFailures(tool_calls, i + 1)

\* the executors a round invokes, in order
RECURSIVE Invoked(_, _)
Invoked(tool_calls, i) ==
    IF i > Len(tool_calls) THEN <<>>
    ELSE (IF FindTool(tool_calls[i].name) = "None" THEN <<>>
          ELSE <<FindTool(tool_calls[i].name)>>)
         \o Invoked(tool_calls, i + 1)

\* the tool's name passed as tool_call_id
ToToolMessages_NameAsId(entries) ==
    [k \in 1..Len(entries) |-> ToolMessage(entries[k].result, entries[k].tool)]

ToToolMessages(entries) ==
    [k \in 1..Len(entries) |-> ToolMessage(entries[k].result, entries[k].id)]

ToToolResults(entries) ==
    [k \in 1..Len(entries) |-> [tool |-> entries[k].tool, result |-> entries[k].result]]

\* chapter 07: tool.invoke is not guarded, so the first executor that raises
\* ends the loop; a request whose tool is not found appends nothing
RECURSIVE ExecuteUncaught(_, _)
ExecuteUncaught(tool_calls, i) ==
    IF i > Len(tool_calls) THEN [raised |-> FALSE, entries |-> <<>>, invoked |-> <<>>]
    ELSE LET tool_call == tool_calls[i]
             tool_func == FindTool(tool_call.name)
             result == invoke(tool_func, tool_call.args)
             rest == ExecuteUncaught(tool_calls, i + 1)
         IN IF tool_func = "None" THEN rest
            ELSE IF result.raised
                 THEN [raised |-> TRUE, entries |-> <<>>, invoked |-> <<tool_func>>]
                 ELSE [raised |-> rest.raised,
                       entries |-> <<[tool |-> tool_call.name, id |-> tool_call.id,
                                      result |-> result.text]>> \o rest.entries,
                       invoked |-> <<tool_func>> \o rest.invoked]

\* chapter 07: "\n\n".join(f"Tool: {name}\nResult:\n{result}")
RECURSIVE tool_context(_)
tool_context(results) ==
    IF results = <<>> THEN ""
    ELSE "Tool: " \o Head(results).tool \o "\nResult:\n" \o Head(results).result
         \o (IF Len(results) > 1 THEN "\n\n" ELSE "")
         \o tool_context(Tail(results))

\* chapter 08: the analysis prompt built from tool_results
RECURSIVE analysis_lines(_)
analysis_lines(results) ==
    IF results = <<>> THEN ""
    ELSE "\n" \o Head(results).tool \o ":\n" \o Head(results).result \o "\n"
         \o analysis_lines(Tail(results))

analysis_prompt(input, results) ==
    "User asked: " \o input \o "\n\nTool results:\n" \o analysis_lines(results)
    \o "\nPlease analyze these results and answer the user's question."

-----------------------------------------------------------------------------
(* Session memory and prompt *)

Memory == IF variant \in AppVariants THEN st_messages ELSE chat_history

RECURSIVE convert_to_langchain_messages(_)
convert_to_langchain_messages(msgs) ==
    IF msgs = <<>> THEN <<>>
    ELSE LET msg == Head(msgs)
             one == IF msg.role = "user" THEN <<HumanMessage(msg.content)>>
                    ELSE IF msg.role = "assistant"
                         THEN <<AIMessage(StrContent(msg.content), <<>>)>>
                         ELSE <<>>
         IN one \o convert_to_langchain_messages(Tail(msgs))

format_messages(history, input) ==
    <<SystemMessage(SystemPrompt)>> \o history \o <<HumanMessage(input)>>

\* a try block that ends before the call of _handle_tool_calls
try_covers_first_call_only == {"first_call"}

\* the sites of process_query whose exceptions its try block covers
try_covers == {"first_call", "dispatch", "loop_call", "final_call"}

\* chapter 06 prints "Error: ..."; process_query returns "Error processing query: ..."
error_msg(e) ==
    IF variant = "ch06" THEN "Error: " \o e ELSE "Error processing query: " \o e

-----------------------------------------------------------------------------
(* Initial state *)

InitAgent ==
    /\ variant \in Variants
    /\ turns = 0
    /\ pc = "idle"
    /\ st_messages = <<>>
    /\ chat_history = <<>>
    /\ user_input = ""
    /\ messages = <<>>
    /\ current_response = NoResponse
    /\ final_response = NoResponse
    /\ iteration = 0
    /\ tool_messages = <<>>
    /\ tool_results = <<>>
    /\ tc_index = 0
    /\ executed = <<>>
    /\ model_calls = 0
    /\ exc = "none"
    /\ response = ""
    /\ turn_start = <<>>

\* initialize_session_state: no messages yet, nothing being processed
NewSession == [messages |-> <<>>, pc |-> "idle", chat_history |-> <<>>, response |-> ""]

\* no call of read_log_file on its own
NoFiles == [f \in {} |-> ""]

Init ==
    /\ InitAgent
    /\ raw_response = NoResponse
    /\ extracted = ""
    /\ extract_pc = "idle"
    /\ session_state = [s \in Sessions |-> NewSession]
    /\ GEMINI_API_KEY = "key"
    /\ agent = "LogAnalyzerAgent"
    /\ self_tools = tools
    /\ logs = NoFiles
    /\ filename = ""
    /\ read_pc = "idle"
    /\ read_result = ""

-----------------------------------------------------------------------------
(* Steps shared by the handlers *)

\* return text  (process_query), or print it (chapter 06)
Return(text) ==
    /\ pc' = "returned"
    /\ response' = text
    /\ exc' = "none"

\* an exception e raised at a site: caught by the enclosing try, or escaping
Raise(site, e) ==
    /\ exc' = e
    /\ IF site \in try_covers
       THEN /\ pc' = "returned"
            /\ response' = error_msg(e)
       ELSE /\ pc' = "crashed"
            /\ response' = response

\* chat_history.add_user_message(user_input); chat_history.add_ai_message(response_text)
Remember(text) ==
    chat_history' = chat_history \o <<HumanMessage(user_input), AIMessage(StrContent(text), <<>>)>>

\* chain_with_history.invoke that returned r: the RunnableWithMessageHistory
\* wrapper adds the input message and the output message, as the model gave
\* it, to the history that get_session_history returns
exit_history(r) ==
    <<HumanMessage(user_input), AIMessage(r.content, r.tool_calls)>>

\* the wrapper's additions, then the explicit ones of the source
RecordAndRemember(r, text) ==
    chat_history' = chat_history \o exit_history(r)
        \o <<HumanMessage(user_input), AIMessage(StrContent(text), <<>>)>>

\* the loop test written as iteration <= max_iterations
LoopTop_OffByOne(resp, it) ==
    IF it <= max_iterations
    THEN /\ iteration' = it + 1
         /\ IF HasToolCalls(resp)
            THEN /\ pc' = "dispatch"
                 /\ UNCHANGED <<response, exc>>
            ELSE Return(extract_response_text(resp))
    ELSE /\ iteration' = it
         /\ Return(extract_response_text(resp))

\* the exhausted budget reported as an error text
LoopTop_BudgetError(resp, it) ==
    IF it < max_iterations
    THEN /\ iteration' = it + 1
         /\ IF HasToolCalls(resp)
            THEN /\ pc' = "dispatch"
                 /\ UNCHANGED <<response, exc>>
            ELSE Return(extract_response_text(resp))
    ELSE /\ iteration' = it
         /\ Return("Error: maximum iterations reached")

\* the final response's content returned without normalisation
LoopTop_RawContent(resp, it) ==
    IF it < max_iterations
    THEN /\ iteration' = it + 1
         /\ IF HasToolCalls(resp)
            THEN /\ pc' = "dispatch"
                 /\ UNCHANGED <<response, exc>>
            ELSE Return(resp.content.str)
    ELSE /\ iteration' = it
         /\ Return(extract_response_text(resp))

\* a response that requests tools returned as the answer from the third pass on
LoopTop_ReturnsRequests(resp, it) ==
    IF it < max_iterations
    THEN /\ iteration' = it + 1
         /\ IF HasToolCalls(resp) /\ it < 2
            THEN /\ pc' = "dispatch"
                 /\ UNCHANGED <<response, exc>>
            ELSE Return(extract_response_text(resp))
    ELSE /\ iteration' = it
         /\ Return(extract_response_text(resp))

\* the loop counter never incremented
LoopTop_NoIncrement(resp, it) ==
    IF it < max_iterations
    THEN /\ iteration' = it
         /\ IF HasToolCalls(resp)
            THEN /\ pc' = "dispatch"
                 /\ UNCHANGED <<response, exc>>
            ELSE Return(extract_response_text(resp))
    ELSE /\ iteration' = it
         /\ Return(extract_response_text(resp))

\* the head of _handle_tool_calls' while loop, entered with resp and counter it
LoopTop(resp, it) ==
    IF it < max_iterations
    THEN /\ iteration' = it + 1
         /\ IF HasToolCalls(resp)
            THEN /\ pc' = "dispatch"
                 /\ UNCHANGED <<response, exc>>
            ELSE Return(extract_response_text(resp))
    ELSE /\ iteration' = it
         /\ Return(extract_response_text(resp))

ResetLocals ==
    /\ user_input' = ""
    /\ messages' = <<>>
    /\ current_response' = NoResponse
    /\ final_response' = NoResponse
    /\ iteration' = 0
    /\ tool_messages' = <<>>
    /\ tool_results' = <<>>
    /\ tc_index' = 0
    /\ executed' = <<>>
    /\ model_calls' = 0
    /\ exc' = "none"
    /\ response' = ""
    /\ turn_start' = <<>>

-----------------------------------------------------------------------------
(* Chapters 08 and 09: the Streamlit app and process_query *)

\* a chat input that converts the whole list, the new user message included
ChatInput_KeepsCurrent(prompt) ==
    /\ pc = "idle"
    /\ variant \in AppVariants
    /\ turns < MaxTurns
    /\ turns' = turns + 1
    /\ turn_start' = st_messages
    /\ st_messages' = Append(st_messages, [role |-> "user", content |-> prompt])
    /\ chat_history' = convert_to_langchain_messages(st_messages')
    /\ user_input' = prompt
    /\ messages' = format_messages(chat_history', prompt)
    /\ pc' = "first_call"
    /\ UNCHANGED <<variant, current_response, final_response, iteration, tool_messages,
                   tool_results, tc_index, executed, model_calls, exc, response>>
    /\ UNCHANGED <<extract_vars, session_vars, process_vars, file_vars>>

\* app.py: the chat input appends the user message, converts the history
\* without it and calls process_query, which formats the prompt
ChatInput(prompt) ==
    /\ pc = "idle"
    /\ variant \in AppVariants
    /\ turns < MaxTurns
    /\ turns' = turns + 1
    /\ turn_start' = st_messages
    /\ st_messages' = Append(st_messages, [role |-> "user", content |-> prompt])
    /\ chat_history' =
           convert_to_langchain_messages(SubSeq(st_messages', 1, Len(st_messages') - 1))
    /\ user_input' = prompt
    /\ messages' = format_messages(chat_history', prompt)
    /\ pc' = "first_call"
    /\ UNCHANGED <<variant, current_response, final_response, iteration, tool_messages,
                   tool_results, tc_index, executed, model_calls, exc, response>>
    /\ UNCHANGED <<extract_vars, session_vars, process_vars, file_vars>>

\* chapter 09, process_query: llm_with_tools.invoke(messages) returns r
ProcessQuery09(r) ==
    /\ pc = "first_call"
    /\ variant = "ch09"
    /\ model_calls' = model_calls + 1
    /\ current_response' = r
    /\ IF HasToolCalls(r)
       THEN /\ messages' = format_messages(chat_history, user_input)
            /\ LoopTop(r, 0)
       ELSE /\ Return(extract_response_text(r))
            /\ UNCHANGED <<messages, iteration>>
    /\ UNCHANGED <<variant, turns, st_messages, chat_history, user_input, final_response,
                   tool_messages, tool_results, tc_index, executed, turn_start>>
    /\ UNCHANGED <<extract_vars, session_vars, process_vars, file_vars>>

\* a dispatch round that drops the last declared tool from self.tools
Dispatch09_RemovesTool ==
    /\ pc = "dispatch"
    /\ variant = "ch09"
    /\ LET entries == ExecuteToolCalls(current_response.tool_calls, 1)
       IN /\ tool_messages' = ToToolMessages(entries)
          /\ messages' = messages
                 \o <<AIMessage(current_response.content, current_response.tool_calls)>>
                 \o tool_messages'
    /\ executed' = executed \o Invoked(current_response.tool_calls, 1)
    /\ pc' = "loop_call"
    /\ self_tools' = SubSeq(self_tools, 1, Len(self_tools) - 1)
    /\ UNCHANGED <<variant, turns, st_messages, chat_history, user_input, current_response,
                   final_response, iteration, tool_results, tc_index, model_calls, exc,
                   response, turn_start>>
    /\ UNCHANGED <<extract_vars, session_vars, GEMINI_API_KEY, agent, file_vars>>

\* chapter 09, _handle_tool_calls: one round of tool execution
Dispatch09 ==
    /\ pc = "dispatch"
    /\ variant = "ch09"
    /\ LET entries == ExecuteToolCalls(current_response.tool_calls, 1)
       IN /\ tool_messages' = ToToolMessages(entries)
          /\ messages' = messages
                 \o <<AIMessage(current_response.content, current_response.tool_calls)>>
                 \o tool_messages'
    /\ executed' = executed \o Invoked(current_response.tool_calls, 1)
    /\ pc' = "loop_call"
    /\ UNCHANGED <<variant, turns, st_messages, chat_history, user_input, current_response,
                   final_response, iteration, tool_results, tc_index, model_calls, exc,
                   response, turn_start>>
    /\ UNCHANGED <<extract_vars, session_vars, process_vars, file_vars>>

\* chapter 09, _handle_tool_calls: the follow-up llm_with_tools.invoke returns r
LoopCall09(r) ==
    /\ pc = "loop_call"
    /\ variant = "ch09"
    /\ model_calls' = model_calls + 1
    /\ current_response' = r
    /\ LoopTop(r, iteration)
    /\ UNCHANGED <<variant, turns, st_messages, chat_history, user_input, messages,
                   final_response, tool_messages, tool_results, tc_index, executed,
                   turn_start>>
    /\ UNCHANGED <<extract_vars, session_vars, process_vars, file_vars>>

\* a model call that raised is made again
ModelRaises_Retries ==
    /\ pc \in {"first_call", "loop_call", "final_call"}
    /\ model_calls' = model_calls + 1
    /\ exc' = ModelError
    /\ UNCHANGED <<variant, turns, pc, st_messages, chat_history, user_input, messages,
                   current_response, final_response, iteration, tool_messages,
                   tool_results, tc_index, executed, turn_start, response>>
    /\ UNCHANGED <<extract_vars, session_vars, process_vars, file_vars>>

\* any model call raises
ModelRaises ==
    /\ pc \in {"first_call", "loop_call", "final_call"}
    /\ model_calls' = model_calls + 1
    /\ Raise(pc, ModelError)
    /\ UNCHANGED <<variant, turns, st_messages, chat_history, user_input, messages,
                   current_response, final_response, iteration, tool_messages,
                   tool_results, tc_index, executed, turn_start>>
    /\ UNCHANGED <<extract_vars, session_vars, process_vars, file_vars>>

\* the response stored over the last stored message
AppendResponse_Overwrite ==
    /\ pc = "returned"
    /\ variant \in AppVariants
    /\ st_messages' = [st_messages EXCEPT ![Len(st_messages)] =
                           [role |-> "assistant", content |-> response]]
    /\ chat_history' = <<>>
    /\ pc' = "idle"
    /\ ResetLocals
    /\ UNCHANGED <<variant, turns>>
    /\ UNCHANGED <<extract_vars, session_vars, process_vars, file_vars>>

\* the response stored only when the last model response requested no tool
AppendResponse_DropsBudget ==
    /\ pc = "returned"
    /\ variant \in AppVariants
    /\ st_messages' = IF HasToolCalls(current_response) /\ exc = "none"
                      THEN st_messages
                      ELSE Append(st_messages, [role |-> "assistant", content |-> response])
    /\ chat_history' = <<>>
    /\ pc' = "idle"
    /\ ResetLocals
    /\ UNCHANGED <<variant, turns>>
    /\ UNCHANGED <<extract_vars, session_vars, process_vars, file_vars>>

\* app.py: the response is appended to the session's messages
AppendResponse ==
    /\ pc = "returned"
    /\ variant \in AppVariants
    /\ st_messages' = Append(st_messages, [role |-> "assistant", content |-> response])
    /\ chat_history' = <<>>
    /\ pc' = "idle"
    /\ ResetLocals
    /\ UNCHANGED <<variant, turns>>
    /\ UNCHANGED <<extract_vars, session_vars, process_vars, file_vars>>

-----------------------------------------------------------------------------
(* Chapter 08: one dispatch, then the plain llm *)

ProcessQuery08(r) ==
    /\ pc = "first_call"
    /\ variant = "ch08"
    /\ model_calls' = model_calls + 1
    /\ current_response' = r
    /\ IF HasToolCalls(r)
       THEN /\ pc' = "dispatch"
            /\ UNCHANGED <<response, exc>>
       ELSE Return(extract_response_text(r))
    /\ UNCHANGED <<variant, turns, st_messages, chat_history, user_input, messages,
                   final_response, iteration, tool_messages, tool_results, tc_index,
                   executed, turn_start>>
    /\ UNCHANGED <<extract_vars, session_vars, process_vars, file_vars>>

Dispatch08 ==
    /\ pc = "dispatch"
    /\ variant = "ch08"
    /\ tool_results' = ToToolResults(ExecuteToolCalls(current_response.tool_calls, 1))
    /\ messages' = <<HumanMessage(analysis_prompt(user_input, tool_results'))>>
    /\ executed' = executed \o Invoked(current_response.tool_calls, 1)
    /\ pc' = "final_call"
    /\ UNCHANGED <<variant, turns, st_messages, chat_history, user_input, current_response,
                   final_response, iteration, tool_messages, tc_index, model_calls, exc,
                   response, turn_start>>
    /\ UNCHANGED <<extract_vars, session_vars, process_vars, file_vars>>

FinalCall08(r) ==
    /\ pc = "final_call"
    /\ variant = "ch08"
    /\ model_calls' = model_calls + 1
    /\ final_response' = r
    /\ Return(extract_response_text(r))
    /\ UNCHANGED <<variant, turns, st_messages, chat_history, user_input, messages,
                   current_response, iteration, tool_messages, tool_results, tc_index,
                   executed, turn_start>>
    /\ UNCHANGED <<extract_vars, session_vars, process_vars, file_vars>>

-----------------------------------------------------------------------------
(* Chapters 06 and 07: the command loop with its own chat history *)

\* the input line is read and the chain formats the prompt with the history
ReadInput(line) ==
    /\ pc = "idle"
    /\ variant \notin AppVariants
    /\ turns < MaxTurns
    /\ turns' = turns + 1
    /\ turn_start' = chat_history
    /\ user_input' = line
    /\ messages' = format_messages(chat_history, line)
    /\ pc' = "first_call"
    /\ UNCHANGED <<variant, st_messages, chat_history, current_response, final_response,
                   iteration, tool_messages, tool_results, tc_index, executed,
                   model_calls, exc, response>>
    /\ UNCHANGED <<extract_vars, session_vars, process_vars, file_vars>>

ProcessQuery07(r) ==
    /\ pc = "first_call"
    /\ variant = "ch07"
    /\ model_calls' = model_calls + 1
    /\ current_response' = r
    /\ IF HasToolCalls(r)
       THEN /\ pc' = "dispatch"
            /\ chat_history' = chat_history \o exit_history(r)
            /\ UNCHANGED <<response, exc>>
       ELSE /\ RecordAndRemember(r, extract_response_text(r))
            /\ Return(extract_response_text(r))
    /\ UNCHANGED <<variant, turns, st_messages, user_input, messages, final_response,
                   iteration, tool_messages, tool_results, tc_index, executed, turn_start>>
    /\ UNCHANGED <<extract_vars, session_vars, process_vars, file_vars>>

Dispatch07 ==
    /\ pc = "dispatch"
    /\ variant = "ch07"
    /\ LET run == ExecuteUncaught(current_response.tool_calls, 1)
       IN /\ executed' = executed \o run.invoked
          /\ IF run.raised
             THEN /\ Raise("dispatch", ToolError)
                  /\ UNCHANGED <<tool_results, messages>>
             ELSE /\ tool_results' = ToToolResults(run.entries)
                  /\ messages' =
                       << SystemMessage(SystemPrompt \o "\n\nYou used tools to get information."),
                          HumanMessage("User asked: " \o user_input \o "\n\nTool results:\n"
                                       \o tool_context(tool_results')) >>
                  /\ pc' = "final_call"
                  /\ UNCHANGED <<response, exc>>
    /\ UNCHANGED <<variant, turns, st_messages, chat_history, user_input, current_response,
                   final_response, iteration, tool_messages, tc_index, model_calls,
                   turn_start>>
    /\ UNCHANGED <<extract_vars, session_vars, process_vars, file_vars>>

FinalCall07(r) ==
    /\ pc = "final_call"
    /\ variant = "ch07"
    /\ model_calls' = model_calls + 1
    /\ final_response' = r
    /\ Remember(extract_response_text(r))
    /\ Return(extract_response_text(r))
    /\ UNCHANGED <<variant, turns, st_messages, user_input, messages, current_response,
                   iteration, tool_messages, tool_results, tc_index, executed, turn_start>>
    /\ UNCHANGED <<extract_vars, session_vars, process_vars, file_vars>>

\* chapter 06, main: the chain's response
Main06(r) ==
    /\ pc = "first_call"
    /\ variant = "ch06"
    /\ model_calls' = model_calls + 1
    /\ current_response' = r
    /\ IF HasToolCalls(r)
       THEN /\ pc' = "dispatch"
            /\ tc_index' = 1
            /\ chat_history' = chat_history \o exit_history(r)
            /\ UNCHANGED <<response, exc>>
       ELSE /\ RecordAndRemember(r, extract_response_text(r))
            /\ Return(extract_response_text(r))
            /\ UNCHANGED tc_index
    /\ UNCHANGED <<variant, turns, st_messages, user_input, messages, final_response,
                   iteration, tool_messages, tool_results, executed, turn_start>>
    /\ UNCHANGED <<extract_vars, session_vars, process_vars, file_vars>>

\* chapter 06: the next request of response.tool_calls, or the end of the loop
NextToolCall06 ==
    IF tc_index < Len(current_response.tool_calls)
    THEN /\ tc_index' = tc_index + 1
         /\ pc' = "dispatch"
    ELSE /\ tc_index' = tc_index
         /\ pc' = "returned"

\* chapter 06, main: one request of response.tool_calls
Dispatch06 ==
    /\ pc = "dispatch"
    /\ variant = "ch06"
    /\ LET tool_call == current_response.tool_calls[tc_index]
           tool_func == FindTool(tool_call.name)
           result == invoke(tool_func, tool_call.args)
       IN IF tool_func = "None"
          THEN /\ NextToolCall06
               /\ UNCHANGED <<executed, messages, response, exc>>
          ELSE /\ executed' = Append(executed, tool_func)
               /\ IF result.raised
                  THEN /\ Raise("dispatch", ToolError)
                       /\ UNCHANGED <<messages, tc_index>>
                  ELSE /\ messages' =
                            << SystemMessage("You are a DevOps expert analyzing logs."),
                               HumanMessage("User asked: " \o user_input
                                            \o "\n\nTool result:\n" \o result.text) >>
                       /\ pc' = "final_call"
                       /\ UNCHANGED <<tc_index, response, exc>>
    /\ UNCHANGED <<variant, turns, st_messages, chat_history, user_input, current_response,
                   final_response, iteration, tool_messages, tool_results, model_calls,
                   turn_start>>
    /\ UNCHANGED <<extract_vars, session_vars, process_vars, file_vars>>

\* chapter 06, main: the plain llm answers one tool result; the text is
\* printed and stored, and the loop goes on with the next request
FinalCall06(r) ==
    /\ pc = "final_call"
    /\ variant = "ch06"
    /\ model_calls' = model_calls + 1
    /\ final_response' = r
    /\ response' = extract_response_text(r)
    /\ exc' = "none"
    /\ Remember(extract_response_text(r))
    /\ NextToolCall06
    /\ UNCHANGED <<variant, turns, st_messages, user_input, messages, current_response,
                   iteration, tool_messages, tool_results, executed, turn_start>>
    /\ UNCHANGED <<extract_vars, session_vars, process_vars, file_vars>>

\* the command loop prints the answer and reads the next line
PrintResponse ==
    /\ pc = "returned"
    /\ variant \notin AppVariants
    /\ pc' = "idle"
    /\ ResetLocals
    /\ UNCHANGED <<variant, turns, st_messages, chat_history>>
    /\ UNCHANGED <<extract_vars, session_vars, process_vars, file_vars>>

Next ==
    \/ \E prompt \in Utterances : ChatInput(prompt)
    \/ \E r \in ModelResponses : ProcessQuery09(r)
    \/ Dispatch09
    \/ \E r \in ModelResponses : LoopCall09(r)
    \/ ModelRaises
    \/ AppendResponse
    \/ \E r \in ModelResponses : ProcessQuery08(r)
    \/ Dispatch08
    \/ \E r \in TextResponses : FinalCall08(r)
    \/ \E line \in Utterances : ReadInput(line)
    \/ \E r \in ModelResponses : ProcessQuery07(r)
    \/ Dispatch07
    \/ \E r \in TextResponses : FinalCall07(r)
    \/ \E r \in ModelResponses : Main06(r)
    \/ Dispatch06
    \/ \E r \in TextResponses : FinalCall06(r)
    \/ PrintResponse

Spec == Init /\ [][Next]_vars

\* chapter 09 alone
Init09 ==
    /\ Init
    /\ variant = "ch09"

Next09 ==
    \/ \E prompt \in Utterances : ChatInput(prompt)
    \/ \E r \in ModelResponses : ProcessQuery09(r)
    \/ Dispatch09
    \/ \E r \in ModelResponses : LoopCall09(r)
    \/ ModelRaises
    \/ AppendResponse

\* the statements of process_query run to the end once the call has started:
\* every model call and every executor returns or raises
TurnStep09 ==
    \/ \E r \in ModelResponses : ProcessQuery09(r)
    \/ Dispatch09
    \/ \E r \in ModelResponses : LoopCall09(r)
    \/ ModelRaises

FairSpec09 == Init09 /\ [][Next09]_vars /\ WF_vars(TurnStep09)

-----------------------------------------------------------------------------
(* The explicit clear, between two turns *)

\* a clear that leaves the first stored message in place
ClearButton_KeepsFirst ==
    /\ pc = "idle"
    /\ variant \in AppVariants
    /\ st_messages' = IF st_messages = <<>> THEN <<>> ELSE <<Head(st_messages)>>
    /\ UNCHANGED <<variant, turns, pc, chat_history, user_input, messages,
                   current_response, final_response, iteration, tool_messages,
                   tool_results, tc_index, executed, model_calls, exc, response,
                   turn_start>>
    /\ UNCHANGED <<extract_vars, session_vars, process_vars, file_vars>>

\* app.py, display_sidebar: st.session_state.messages = []; st.rerun()
ClearButton ==
    /\ pc = "idle"
    /\ variant \in AppVariants
    /\ st_messages' = <<>>
    /\ UNCHANGED <<variant, turns, pc, chat_history, user_input, messages,
                   current_response, final_response, iteration, tool_messages,
                   tool_results, tc_index, executed, model_calls, exc, response,
                   turn_start>>
    /\ UNCHANGED <<extract_vars, session_vars, process_vars, file_vars>>

\* a clear_history that keeps the oldest message of self.chat_history
ClearCommand_KeepsFirst ==
    /\ pc = "idle"
    /\ variant = "ch07"
    /\ chat_history' = IF chat_history = <<>> THEN <<>> ELSE <<Head(chat_history)>>
    /\ UNCHANGED <<variant, turns, pc, st_messages, user_input, messages,
                   current_response, final_response, iteration, tool_messages,
                   tool_results, tc_index, executed, model_calls, exc, response,
                   turn_start>>
    /\ UNCHANGED <<extract_vars, session_vars, process_vars, file_vars>>

\* chapter 07, main: the line 'clear' calls agent.clear_history(), which sets
\* self.chat_history = InMemoryChatMessageHistory(); get_session_history reads
\* self.chat_history at every call, so the chain sees the new one
ClearCommand ==
    /\ pc = "idle"
    /\ variant = "ch07"
    /\ chat_history' = <<>>
    /\ UNCHANGED <<variant, turns, pc, st_messages, user_input, messages,
                   current_response, final_response, iteration, tool_messages,
                   tool_results, tc_index, executed, model_calls, exc, response,
                   turn_start>>
    /\ UNCHANGED <<extract_vars, session_vars, process_vars, file_vars>>

NextClear ==
    \/ Next
    \/ ClearButton
    \/ ClearCommand

SpecClear == Init /\ [][NextClear]_vars

-----------------------------------------------------------------------------
(* Start of the process: the credential is validated before the agent exists *)

\* unset, set to the empty string, or set
Keys == {"None", "", "key"}

\* a validation that accepts every environment
validate_raises_Never(key) == FALSE

\* Config.validate: `if not cls.GEMINI_API_KEY: raise ValueError(...)`;
\* chapter 06 has no Config: os.environ['GEMINI_API_KEY'] raises KeyError
\* when the variable is not set
validate_raises(key) ==
    IF variant = "ch06" THEN key = "None" ELSE key \in {"None", ""}

InitStartup ==
    /\ variant \in Variants
    /\ pc = "start"
    /\ GEMINI_API_KEY \in Keys
    /\ agent = "None"
    /\ self_tools = <<>>
    /\ turns = 0
    /\ st_messages = <<>>
    /\ chat_history = <<>>
    /\ user_input = ""
    /\ messages = <<>>
    /\ current_response = NoResponse
    /\ final_response = NoResponse
    /\ iteration = 0
    /\ tool_messages = <<>>
    /\ tool_results = <<>>
    /\ tc_index = 0
    /\ executed = <<>>
    /\ model_calls = 0
    /\ exc = "none"
    /\ response = ""
    /\ turn_start = <<>>
    /\ raw_response = NoResponse
    /\ extracted = ""
    /\ extract_pc = "idle"
    /\ session_state = [s \in Sessions |-> NewSession]
    /\ logs = NoFiles
    /\ filename = ""
    /\ read_pc = "idle"
    /\ read_result = ""

\* the import of config (which validates), Config.validate() of main or of
\* initialize_session_state, then LogAnalyzerAgent(); a failed validation
\* ends the process (sys.exit, st.stop, or the uncaught exception)
Startup ==
    /\ pc = "start"
    /\ IF validate_raises(GEMINI_API_KEY)
       THEN /\ pc' = "exited"
            /\ UNCHANGED <<agent, self_tools>>
       ELSE /\ pc' = "idle"
            /\ agent' = "LogAnalyzerAgent"
            /\ self_tools' = tools
    /\ UNCHANGED <<variant, turns, st_messages, chat_history, user_input, messages,
                   current_response, final_response, iteration, tool_messages,
                   tool_results, tc_index, executed, model_calls, exc, response,
                   turn_start, GEMINI_API_KEY>>
    /\ UNCHANGED <<extract_vars, session_vars, file_vars>>

NextStartup ==
    \/ Startup
    \/ Next

SpecStartup == InitStartup /\ [][NextStartup]_vars

-----------------------------------------------------------------------------
(* read_log_file of chapter 06 called on its own *)

LogNames == {"app.log", "error.log", "archive"}

MissingFile == [kind |-> "missing", content |-> ""]

LogFile(content) == [kind |-> "file", content |-> content]

\* a directory under logs/: open raises IsADirectoryError
Directory == [kind |-> "dir", content |-> ""]

LogContents == {"", "INFO started\nERROR failed"}

Entries == {MissingFile, Directory} \cup {LogFile(c) : c \in LogContents}

\* FileNotFoundError left uncaught
read_log_file_NoCatch(fs, name) ==
    IF fs[name].kind = "file"
    THEN [raised |-> FALSE, text |-> fs[name].content]
    ELSE [raised |-> TRUE, text |-> ""]

\* open(f"logs/{filename}").read(), with `except FileNotFoundError`
read_log_file(fs, name) ==
    IF fs[name].kind = "file"
    THEN [raised |-> FALSE, text |-> fs[name].content]
    ELSE IF fs[name].kind = "missing"
         THEN [raised |-> FALSE, text |-> "Log file " \o name \o " not found"]
         ELSE [raised |-> TRUE, text |-> ""]

InitReadLog ==
    /\ InitAgent
    /\ variant = "ch06"
    /\ raw_response = NoResponse
    /\ extracted = ""
    /\ extract_pc = "idle"
    /\ session_state = [s \in Sessions |-> NewSession]
    /\ GEMINI_API_KEY = "key"
    /\ agent = "LogAnalyzerAgent"
    /\ self_tools = tools
    /\ logs \in [LogNames -> Entries]
    /\ filename \in LogNames
    /\ read_pc = "idle"
    /\ read_result = ""

\* read_log_file.invoke({"filename": filename})
ReadLogFile ==
    /\ read_pc = "idle"
    /\ LET outcome == read_log_file(logs, filename)
       IN IF outcome.raised
          THEN /\ read_pc' = "raised"
               /\ read_result' = read_result
          ELSE /\ read_pc' = "returned"
               /\ read_result' = outcome.text
    /\ UNCHANGED <<logs, filename, agent_vars, extract_vars, session_vars, process_vars>>

NextReadLog == ReadLogFile

SpecReadLog == InitReadLog /\ [][NextReadLog]_vars

-----------------------------------------------------------------------------
(* extract_response_text called on its own, on every response shape *)

\* a plain str: it has no content attribute, and str(x) is x
PlainString(x) == [has_content |-> FALSE, content |-> StrContent(""), tool_calls |-> <<>>, repr |-> x]

Strings == {"", "ok", "ab"}

Blocks == {TextDict("a"), StrBlock("b"), OtherDict, OtherBlock, NoneTextDict}

BlockSeqs(n) == UNION {[1..k -> Blocks] : k \in 0..n}

ExtractInputs ==
    {PlainString(x) : x \in Strings}
        \cup {AIResponse(StrContent(x), <<>>) : x \in Strings}
        \cup {AIResponse(ListContent(bs), <<>>) : bs \in BlockSeqs(MaxBlocks)}
        \cup {AIResponse(OtherContent("None"), <<>>)}

InitExtract ==
    /\ InitAgent
    /\ raw_response \in ExtractInputs
    /\ extracted = ""
    /\ extract_pc = "idle"
    /\ session_state = [s \in Sessions |-> NewSession]
    /\ GEMINI_API_KEY = "key"
    /\ agent = "LogAnalyzerAgent"
    /\ self_tools = tools
    /\ logs = NoFiles
    /\ filename = ""
    /\ read_pc = "idle"
    /\ read_result = ""

\* extract_response_text(raw_response)
Extract ==
    /\ extract_pc = "idle"
    /\ IF extract_raises(raw_response)
       THEN /\ extract_pc' = "raised"
            /\ extracted' = extracted
       ELSE /\ extracted' = extract_response_text(raw_response)
            /\ extract_pc' = "returned"
    /\ UNCHANGED <<raw_response, agent_vars, session_vars, process_vars, file_vars>>

\* extract_response_text applied to the string the first call returned
ExtractAgain ==
    /\ extract_pc = "returned"
    /\ raw_response' = PlainString(extracted)
    /\ extracted' = extract_response_text(PlainString(extracted))
    /\ extract_pc' = "done"
    /\ UNCHANGED <<agent_vars, session_vars, process_vars, file_vars>>

NextExtract ==
    \/ Extract
    \/ ExtractAgain

SpecExtract == InitExtract /\ [][NextExtract]_vars

-----------------------------------------------------------------------------
(* The Streamlit app under several browser sessions: every script run works *)
(* on the st.session_state of its own session, runs of distinct sessions    *)
(* interleave statement by statement                                        *)

\* every session's state taken from the first session
st_session_state_Shared(s) == session_state["s1"]

\* st.session_state as the script run of session s sees it
st_session_state(s) == session_state[s]

\* what process_query hands back: the normalised text of a model answer, or
\* the error text of its except clause
SessionAnswers ==
    {extract_response_text(r) : r \in TextResponses}
        \cup {"Error processing query: " \o ModelError}

InitSessions ==
    /\ Init
    /\ variant = "ch09"

\* app.py 155-157: the prompt is appended to the session's messages
SessionChatInput(s, prompt) ==
    /\ st_session_state(s).pc = "idle"
    /\ Len(st_session_state(s).messages) < 2 * MaxTurns
    /\ session_state' = [session_state EXCEPT ![s] =
           [messages |-> Append(st_session_state(s).messages,
                                [role |-> "user", content |-> prompt]),
            pc |-> "processing", chat_history |-> <<>>, response |-> ""]]
    /\ UNCHANGED <<agent_vars, extract_vars, process_vars, file_vars>>

\* app.py 167-175: the history without the current message is converted and
\* handed to the session's agent, whose process_query returns a text
SessionProcessQuery(s, answer) ==
    /\ st_session_state(s).pc = "processing"
    /\ LET msgs == st_session_state(s).messages
       IN session_state' = [session_state EXCEPT ![s] =
              [messages |-> msgs,
               pc |-> "returned",
               chat_history |->
                   convert_to_langchain_messages(SubSeq(msgs, 1, Len(msgs) - 1)),
               response |-> answer]]
    /\ UNCHANGED <<agent_vars, extract_vars, process_vars, file_vars>>

\* app.py 181: the response is appended to the session's messages
SessionAppendResponse(s) ==
    /\ st_session_state(s).pc = "returned"
    /\ session_state' = [session_state EXCEPT ![s] =
           [messages |-> Append(st_session_state(s).messages,
                                [role |-> "assistant",
                                 content |-> st_session_state(s).response]),
            pc |-> "idle", chat_history |-> <<>>, response |-> ""]]
    /\ UNCHANGED <<agent_vars, extract_vars, process_vars, file_vars>>

NextSessions ==
    \/ \E s \in Sessions, prompt \in Utterances : SessionChatInput(s, prompt)
    \/ \E s \in Sessions, answer \in SessionAnswers : SessionProcessQuery(s, answer)
    \/ \E s \in Sessions : SessionAppendResponse(s)

SpecSessions == InitSessions /\ [][NextSessions]_vars

-----------------------------------------------------------------------------
(* Properties *)

\* the dispatch rounds of the turn: each appends one assistant message that
\* records its tool-call requests to the in-flight message sequence
DispatchRounds ==
    Cardinality({k \in DOMAIN messages :
                    messages[k].role = "ai" /\ messages[k].tool_calls # <<>>})

\* the turn ended because the budget was exhausted: the loop returned while
\* the last response still requested tools
BudgetExhausted ==
    /\ variant = "ch09"
    /\ pc = "returned"
    /\ exc = "none"
    /\ HasToolCalls(current_response)

\* the turn ended with a final text of the model
FinalText ==
    /\ pc = "returned"
    /\ exc = "none"
    /\ \/ final_response # NoResponse
       \/ current_response # NoResponse /\ ~HasToolCalls(current_response)

\* C1: in chapter 09, the model is invoked at most max_iterations + 1 times
\* while one utterance is answered, whatever the model returns.
C1_ModelCallsWithinCap ==
    variant = "ch09" => model_calls <= max_iterations + 1

C1_Witness ==
    /\ variant = "ch09"
    /\ pc = "returned"
    /\ model_calls = max_iterations + 1

\* C2: after a dispatch round there is exactly one tool result per request of
\* the response, in request order (the i-th result answers the i-th request).
C2_OneResultPerRequest ==
    /\ (variant = "ch09" /\ pc = "loop_call") =>
          /\ Len(tool_messages) = Len(current_response.tool_calls)
          /\ \A i \in 1..Len(tool_messages) :
                 tool_messages[i].tool_call_id = current_response.tool_calls[i].id
    /\ (variant = "ch08" /\ pc = "final_call") =>
          /\ Len(tool_results) = Len(current_response.tool_calls)
          /\ \A i \in 1..Len(tool_results) :
                 tool_results[i].tool = current_response.tool_calls[i].name

\* C3: a request that names a tool missing from the registry gets a tool
\* result with its call-id, and that result is in the messages of the next
\* model call.
C3_UnknownToolGetsResult ==
    (variant = "ch09" /\ pc = "loop_call") =>
        \A i \in 1..Len(current_response.tool_calls) :
            FindTool(current_response.tool_calls[i].name) = "None" =>
                \E k \in DOMAIN messages :
                    /\ k > Len(messages) - Len(tool_messages)
                    /\ messages[k].role = "tool"
                    /\ messages[k].tool_call_id = current_response.tool_calls[i].id

\* C4: in every chapter, an executor's exception is caught for its call; it
\* is never the exception that ends the turn at the loop boundary.
C4_ToolFailureNeverEndsTurn ==
    pc = "returned" => exc # ToolError

\* C5: a turn that ends with a final text of the model leaves the session
\* memory exactly 2 turns longer than it was when the turn began.
C5_MemoryGrowsByTwo ==
    [][(FinalText /\ pc' = "idle") => Len(Memory') = Len(turn_start) + 2]_vars

\* C6: when a model call raises, first or follow-up, the exception is caught:
\* the caller gets the error text as a plain string, nothing escapes, and the
\* host can take the turn to its end and accept the next utterance.
C6_ModelErrorBecomesText ==
    /\ pc # "crashed"
    /\ exc = ModelError =>
          /\ pc = "returned"
          /\ response = error_msg(ModelError)
          /\ ENABLED (AppendResponse \/ PrintResponse)

C6_Witness ==
    /\ variant = "ch09"
    /\ exc = ModelError
    /\ pc = "returned"
    /\ iteration >= 2
    /\ response = "Error processing query: " \o ModelError

\* C7: when the model call raised, the session memory after the turn equals
\* the session memory before it.
C7_MemoryUnchangedOnModelError ==
    [][(pc = "returned" /\ exc = ModelError /\ pc' = "idle") => Memory' = turn_start]_vars

\* C8: when the budget is exhausted, exactly max_iterations dispatch rounds
\* were made, the requests of the last response (number max_iterations + 1)
\* were not dispatched, and the normalised text of that response is returned
\* as an ordinary answer.
C8_BudgetExhaustedAnswer ==
    BudgetExhausted =>
        /\ iteration = max_iterations
        /\ DispatchRounds = max_iterations
        /\ model_calls = max_iterations + 1
        /\ response = extract_response_text(current_response)
        /\ response # error_msg(ModelError)
        /\ current_response.content = ListContent(BlocksAB) => response = "ab"

C8_Witness ==
    /\ BudgetExhausted
    /\ DispatchRounds = max_iterations
    /\ current_response.content.kind = "list"
    /\ response = "ab"

\* a confirmation by the user is on record in the session
ConfirmationRecorded ==
    \E j \in DOMAIN st_messages :
        st_messages[j].role = "user" /\ st_messages[j].content = ConfirmUtterance

\* C9: restart_kubernetes_pod is executed only in a turn for which a user
\* confirmation was recorded beforehand.
C9_RestartOnlyAfterConfirmation ==
    (\E k \in DOMAIN executed : executed[k] = "restart_kubernetes_pod")
        => ConfirmationRecorded

\* C10: when the last response of a turn requests no tool, process_query
\* returns exactly the normalised text of that response.
C10_FinalTextReturned ==
    (variant = "ch09" /\ pc = "returned" /\ exc = "none"
        /\ ~HasToolCalls(current_response)) =>
        /\ response = extract_response_text(current_response)
        /\ current_response.content = ListContent(BlocksAB) => response = "ab"
        /\ current_response.content = StrContent("ok") => response = "ok"

C10_Witness ==
    /\ variant = "ch09"
    /\ pc = "returned"
    /\ exc = "none"
    /\ ~HasToolCalls(current_response)
    /\ iteration >= 2
    /\ current_response.content.kind = "list"
    /\ response = "ab"


\* the tool-result messages of the in-flight message sequence
ToolMessageCount ==
    Cardinality({k \in DOMAIN messages : messages[k].role = "tool"})

\* C11: in chapter 09, every tool-result message of the in-flight sequence
\* carries the id of a request of the nearest preceding assistant message.
C11_ToolResultsAnswerRequests ==
    variant = "ch09" =>
        \A k \in DOMAIN messages :
            messages[k].role = "tool" =>
                \E a \in 1..(k - 1) :
                    /\ messages[a].role = "ai"
                    /\ \A j \in (a + 1)..(k - 1) : messages[j].role # "ai"
                    /\ \E i \in DOMAIN messages[a].tool_calls :
                           messages[a].tool_calls[i].id = messages[k].tool_call_id

C11_Witness ==
    /\ variant = "ch09"
    /\ DispatchRounds >= 2
    /\ messages[Len(messages)].role = "tool"
    /\ messages[Len(messages)].tool_call_id = "call_2"

\* C13: with no clear, every step leaves the stored turns in place: the
\* memory before the step is a prefix of the memory after it, and what is
\* added are whole user or assistant turns.
C13_MemoryOnlyGrows ==
    [][ /\ Len(Memory) <= Len(Memory')
        /\ SubSeq(Memory', 1, Len(Memory)) = Memory
        /\ \A k \in (Len(Memory) + 1)..Len(Memory') :
               Memory'[k].role \in {"user", "assistant", "human", "ai"}
      ]_vars

C13_Witness ==
    /\ pc = "returned"
    /\ Len(turn_start) = 2
    /\ Len(Memory) > Len(turn_start)
    /\ SubSeq(Memory, 1, 2) = turn_start

\* C14: a turn that ends by budget exhaustion extends the session memory by
\* exactly the user utterance followed by the text that was returned.
C14_BudgetTurnRecorded ==
    [][(BudgetExhausted /\ pc' = "idle") =>
          st_messages' = turn_start
              \o << [role |-> "user", content |-> user_input],
                    [role |-> "assistant", content |-> response] >>]_vars

C14_Witness ==
    /\ BudgetExhausted
    /\ Len(turn_start) = 2
    /\ st_messages = Append(turn_start, [role |-> "user", content |-> user_input])

Resolvable(tool_call) == FindTool(tool_call.name) # "None"

\* C15: after a dispatch round of chapter 09, the executors were invoked in
\* the order of the requests, and their results stand in that order directly
\* after the assistant message that carries the requests.
C15_DispatchInRequestOrder ==
    (variant = "ch09" /\ pc = "loop_call") =>
        LET reqs == SelectSeq(current_response.tool_calls, Resolvable)
            n == Len(reqs)
            base == Len(messages) - n
        IN /\ Len(tool_messages) = n
           /\ \A i \in 1..n : tool_messages[i].tool_call_id = reqs[i].id
           /\ base >= 1
           /\ messages[base] =
                  AIMessage(current_response.content, current_response.tool_calls)
           /\ \A i \in 1..n : messages[base + i] = tool_messages[i]
           /\ Len(executed) >= n
           /\ \A i \in 1..n : executed[Len(executed) - n + i] = reqs[i].name

C15_Witness ==
    /\ variant = "ch09"
    /\ pc = "loop_call"
    /\ iteration >= 2
    /\ Len(tool_messages) = 2
    /\ tool_messages[1].tool_call_id = "call_1"
    /\ tool_messages[2].tool_call_id = "call_2"

\* C16: in chapter 09, a model call starts only when every executor invoked
\* so far has completed with a result in the message sequence, every received
\* response but the one being dispatched has been dispatched, and no tool is
\* executed before a response has been received.
C16_ToolsCompleteBeforeNextCall ==
    variant = "ch09" =>
        /\ pc = "first_call" => (executed = <<>> /\ ToolMessageCount = 0)
        /\ pc = "loop_call" =>
              (model_calls = DispatchRounds /\ ToolMessageCount = Len(executed))
        /\ pc = "dispatch" =>
              /\ model_calls = DispatchRounds + 1
              /\ ToolMessageCount = Len(executed)
              /\ HasToolCalls(current_response)

C16_Witness ==
    /\ variant = "ch09"
    /\ pc = "loop_call"
    /\ Len(executed) >= 3
    /\ \E k \in DOMAIN messages :
           messages[k].role = "tool" /\ messages[k].content.str = "Error: " \o ToolError


\* what one block contributes to the text
Portion(block) ==
    IF block.type = "dict" /\ block.has_text THEN block.text
    ELSE IF block.type = "str" THEN block.text
    ELSE ""

RECURSIVE ConcatUpTo(_, _)
ConcatUpTo(blocks, n) ==
    IF n = 0 THEN "" ELSE ConcatUpTo(blocks, n - 1) \o Portion(blocks[n])

\* C17: on a response whose content is a list of blocks, the text returned
\* is the concatenation, in list order and with nothing in between, of the
\* 'text' of the dicts that have one and of the blocks that are strings;
\* [{text:'a'}, 'b', {other:1}] gives 'ab' and the empty list gives ''.
C17_ListContentConcatenated ==
    (extract_pc = "returned" /\ raw_response.has_content
        /\ raw_response.content.kind = "list") =>
        LET blocks == raw_response.content.blocks
        IN /\ extracted = ConcatUpTo(blocks, Len(blocks))
           /\ blocks = BlocksAB => extracted = "ab"
           /\ blocks = <<StrBlock("b"), OtherBlock, TextDict("a")>> => extracted = "ba"
           /\ blocks = <<>> => extracted = ""

C17_Witness ==
    /\ extract_pc = "returned"
    /\ raw_response = AIResponse(ListContent(BlocksAB), <<>>)
    /\ extracted = "ab"

\* C18: extract_response_text never raises, whatever the shape of the
\* response, a dict block with a 'text' entry of any value included.
C18_ExtractNeverRaises ==
    extract_pc # "raised"

\* C19: a plain string comes back unchanged, and so does the result of
\* applying the function to what it returned: extract(extract(x)) =
\* extract(x) = x.
C19_IdempotentOnStrings ==
    /\ (extract_pc = "returned" /\ ~raw_response.has_content) =>
           extracted = raw_response.repr
    /\ extract_pc = "done" =>
           (~raw_response.has_content /\ extracted = raw_response.repr)

C19_Witness ==
    /\ extract_pc = "done"
    /\ raw_response = PlainString("ab")
    /\ extracted = "ab"


InTurn09 ==
    variant = "ch09" /\ pc \in {"first_call", "dispatch", "loop_call"}

\* C20: every call of process_query of chapter 09 terminates: a turn that has
\* started reaches the return, after at most max_iterations dispatch rounds,
\* with a final text, with the budget exhausted or with the error text, and
\* no response reaches the caller while the turn is being processed.
C20_ProcessQueryTerminates ==
    /\ InTurn09 ~> (variant = "ch09" /\ pc = "returned")
    /\ [](variant = "ch09" => DispatchRounds <= max_iterations)
    /\ [](InTurn09 => response = "")
    /\ []((variant = "ch09" /\ pc = "returned") =>
             \/ exc # "none" /\ response = error_msg(exc)
             \/ exc = "none" /\ ~HasToolCalls(current_response)
             \/ exc = "none" /\ HasToolCalls(current_response)
                    /\ DispatchRounds = max_iterations)

C20_Witness ==
    /\ variant = "ch09"
    /\ pc = "returned"
    /\ exc = "none"
    /\ HasToolCalls(current_response)
    /\ DispatchRounds = max_iterations
    /\ turns = 2


\* C21: the tool registry of the agent is the list its constructor stored:
\* no step of process_query or of a dispatch round adds, removes, reorders
\* or replaces a tool, in any turn.
C21_RegistryFixed ==
    /\ [](self_tools = tools)
    /\ [][self_tools' = self_tools]_vars

C21_Witness ==
    /\ variant = "ch09"
    /\ pc = "loop_call"
    /\ turns = 2
    /\ Len(executed) >= 4
    /\ self_tools = get_all_tools


\* C22: with GEMINI_API_KEY not set (or, where Config validates it, empty),
\* the process never gets past its start: no agent is constructed, no
\* utterance is taken and no model call is made.
C22_NoAgentWithoutCredential ==
    (GEMINI_API_KEY = "None" \/ (GEMINI_API_KEY = "" /\ variant # "ch06")) =>
        /\ agent = "None"
        /\ pc \in {"start", "exited"}
        /\ turns = 0
        /\ model_calls = 0
        /\ Memory = <<>>
        /\ response = ""

C22_Witness ==
    /\ variant = "ch09"
    /\ GEMINI_API_KEY = "None"
    /\ pc = "exited"


\* C23: for a name with no file under logs/, read_log_file returns the text
\* "Log file <name> not found" and does not raise; for an existing file it
\* returns the file's content.
C23_ReadLogFileMissingOrContent ==
    read_pc # "idle" =>
        /\ logs[filename].kind = "missing" =>
               /\ read_pc = "returned"
               /\ read_result = "Log file " \o filename \o " not found"
        /\ logs[filename].kind = "file" =>
               /\ read_pc = "returned"
               /\ read_result = logs[filename].content

C23_Witness ==
    /\ read_pc = "returned"
    /\ filename = "error.log"
    /\ logs["error.log"] = MissingFile
    /\ logs["app.log"].kind = "file"
    /\ read_result = "Log file error.log not found"


\* the system instruction, the memory snapshot of the turn's start and the
\* new utterance
OutboundPrefix ==
    format_messages(IF variant \in AppVariants
                    THEN convert_to_langchain_messages(turn_start)
                    ELSE turn_start,
                    user_input)

\* the message sequence about to be sent starts with the prefix and goes on
\* with assistant and tool-result turns only
KeepsPrefix ==
    /\ Len(messages) >= Len(OutboundPrefix)
    /\ SubSeq(messages, 1, Len(OutboundPrefix)) = OutboundPrefix
    /\ \A k \in (Len(OutboundPrefix) + 1)..Len(messages) :
           messages[k].role \in {"ai", "tool"}

\* C24: every model call of a turn, the first one and every follow-up after
\* a dispatch round, receives the system instruction, the memory snapshot
\* and the new utterance, followed by assistant and tool-result turns only.
C24_ModelCallsKeepPrefix ==
    (variant \in AppVariants /\ pc \in {"first_call", "loop_call", "final_call"})
        => KeepsPrefix


\* C25: session memory never holds an assistant turn that records tool-call
\* requests nor a tool-result turn, and during a turn of the app the
\* chat_history list handed to process_query stays what the caller passed.
C25_ToolTurnsStayInFlight ==
    /\ \A k \in DOMAIN Memory :
           IF variant \in AppVariants
           THEN DOMAIN Memory[k] = {"role", "content"}
                    /\ Memory[k].role \in {"user", "assistant"}
           ELSE Memory[k].role \in {"human", "ai"} /\ Memory[k].tool_calls = <<>>
    /\ (variant \in AppVariants /\ pc # "idle") =>
           chat_history = convert_to_langchain_messages(turn_start)


\* C26: an explicit clear leaves the session memory empty and the agent, its
\* tool registry and the configuration as they were, and the first model
\* call of a turn that starts on an empty memory receives the system
\* instruction and the new utterance only.
C26_ClearEmptiesMemory ==
    /\ [][(ClearButton \/ ClearCommand) =>
             /\ Memory' = <<>>
             /\ agent' = agent
             /\ self_tools' = self_tools
             /\ GEMINI_API_KEY' = GEMINI_API_KEY
             /\ variant' = variant]_vars
    /\ [][(pc = "idle" /\ Memory = <<>> /\ pc' = "first_call") =>
             messages' = <<SystemMessage(SystemPrompt), HumanMessage(user_input')>>]_vars

C26_Witness ==
    /\ variant = "ch09"
    /\ pc = "first_call"
    /\ turns = 2
    /\ turn_start = <<>>
    /\ Memory = <<[role |-> "user", content |-> user_input]>>
    /\ messages = <<SystemMessage(SystemPrompt), HumanMessage(user_input)>>


\* C27: in chapter 09 a response that carries tool-call requests is the
\* turn's answer only when the budget is exhausted, and a response without
\* requests ends the turn at once: its text is returned, and no model call
\* and no tool execution follows in that turn.
C27_TextEndsTurn ==
    /\ []((variant = "ch09" /\ pc = "returned" /\ exc = "none"
              /\ HasToolCalls(current_response)) =>
             (iteration = max_iterations /\ DispatchRounds = max_iterations))
    /\ [][(variant = "ch09" /\ model_calls' = model_calls + 1 /\ exc' = "none"
              /\ ~HasToolCalls(current_response')) =>
             /\ pc' = "returned"
             /\ response' = extract_response_text(current_response')
             /\ executed' = executed]_vars
    /\ [][(variant = "ch09" /\ pc = "returned") =>
             (pc' = "idle" /\ model_calls' = 0 /\ executed' = <<>>)]_vars

C27_Witness ==
    /\ variant = "ch09"
    /\ pc = "returned"
    /\ exc = "none"
    /\ ~HasToolCalls(current_response)
    /\ DispatchRounds = 3
    /\ model_calls = 4
    /\ response = extract_response_text(current_response)


\* the requests of the responses that were dispatched, in order (chapter 09
\* keeps every dispatched response in the message sequence)
RECURSIVE DispatchedRequests(_)
DispatchedRequests(msgs) ==
    IF msgs = <<>> THEN <<>>
    ELSE (IF Head(msgs).role = "ai" THEN Head(msgs).tool_calls ELSE <<>>)
         \o DispatchedRequests(Tail(msgs))

NamesOf(reqs) == [k \in 1..Len(reqs) |-> reqs[k].name]

IsPrefix(a, b) == Len(a) <= Len(b) /\ SubSeq(b, 1, Len(a)) = a

\* C28: within a turn every request is executed at most once: the executors
\* invoked are, in order, those named by the requests of the dispatched
\* responses that name a declared tool, one invocation per request, never
\* more invocations than requests.
C28_RequestsExecutedAtMostOnce ==
    IF variant = "ch09"
    THEN LET reqs == DispatchedRequests(messages)
         IN /\ Len(executed) <= Len(reqs)
            /\ executed = NamesOf(SelectSeq(reqs, Resolvable))
    ELSE /\ Len(executed) <= Len(current_response.tool_calls)
         /\ IsPrefix(executed, NamesOf(SelectSeq(current_response.tool_calls, Resolvable)))

C28_Witness ==
    /\ variant = "ch09"
    /\ pc = "loop_call"
    /\ DispatchRounds = 3
    /\ Len(DispatchedRequests(messages)) = 5
    /\ Len(executed) = 4
    /\ \E k \in DOMAIN messages :
           messages[k].role = "tool" /\ messages[k].content.str = "Error: " \o ToolError


\* C29: a model call that raised is not made again: once it has raised, the
\* turn is at its return, and the only step left is the caller taking the
\* error text, with no further model call and no tool execution.
C29_NoRetryAfterModelError ==
    /\ [](exc = ModelError => pc = "returned")
    /\ [][exc = ModelError =>
             /\ pc' = "idle"
             /\ model_calls' = 0
             /\ executed' = <<>>
             /\ messages' = <<>>]_vars

C29_Witness ==
    /\ variant = "ch09"
    /\ exc = ModelError
    /\ pc = "returned"
    /\ model_calls = 3
    /\ DispatchRounds = 2
    /\ Len(executed) = 4


\* the roles of msgs alternate user, assistant, starting with user
Alternates(msgs) ==
    \A i \in 1..Len(msgs) :
        msgs[i].role = IF i % 2 = 1 THEN "user" ELSE "assistant"

\* C30: between turns st.session_state.messages has even length and alternates
\* user, assistant starting with user, after any utterances and clears and
\* whether a turn ended with an answer or an error string; during a turn it
\* carries exactly one trailing user turn that has no answer yet.
C30_MessagesAlternate ==
    variant \in AppVariants =>
        /\ Alternates(st_messages)
        /\ pc = "idle" => Len(st_messages) % 2 = 0
        /\ pc # "idle" =>
              /\ Len(st_messages) % 2 = 1
              /\ st_messages[Len(st_messages)] = [role |-> "user", content |-> user_input]

C30_Witness ==
    /\ variant = "ch09"
    /\ pc = "idle"
    /\ turns = 2
    /\ Len(st_messages) = 2
    /\ st_messages[2].content = "Error processing query: " \o ModelError


\* the LangChain message that stands for one stored turn
AsLangchain(msg) ==
    IF msg.role = "user" THEN HumanMessage(msg.content)
    ELSE AIMessage(StrContent(msg.content), <<>>)

\* history holds the turns of memory, one message per turn, in their order
SameTurns(history, memory) ==
    /\ Len(history) = Len(memory)
    /\ \A k \in 1..Len(memory) : history[k] = AsLangchain(memory[k])

\* C31: the chat history handed to process_query is the session memory as it
\* was before the utterance was appended: one message per earlier turn, with
\* its role and content, in the stored order, the new utterance excluded; the
\* outbound sequence is the system instruction, these messages and the new
\* utterance, which stands once, at the end.
C31_HistoryIsMemoryBeforeUtterance ==
    /\ [][(variant \in AppVariants /\ pc = "idle" /\ pc' = "first_call") =>
             /\ SameTurns(chat_history', st_messages)
             /\ st_messages' =
                    Append(st_messages, [role |-> "user", content |-> user_input'])]_vars
    /\ []((variant \in AppVariants /\ pc = "first_call") =>
             /\ SameTurns(chat_history, SubSeq(st_messages, 1, Len(st_messages) - 1))
             /\ Len(messages) = Len(st_messages) + 1
             /\ messages[1] = SystemMessage(SystemPrompt)
             /\ SubSeq(messages, 2, Len(messages) - 1) = chat_history
             /\ messages[Len(messages)] = HumanMessage(user_input))

C31_Witness ==
    /\ variant = "ch09"
    /\ pc = "first_call"
    /\ Len(st_messages) = 3
    /\ st_messages[1].content = user_input
    /\ st_messages[2].role = "assistant"
    /\ Len(chat_history) = 2
    /\ chat_history[2].role = "ai"
    /\ Len(messages) = 4

====
